---- MODULE Spec2Model ----
(***************************************************************************)
(* A model of logix-xtask (src/lib.rs): the static task table ACTIONS, the *)
(* command-line front end and the scheduler loop of run_xtask, cargo_cmd,  *)
(* and the coverage driver code_coverage / grcov.                          *)
(*                                                                         *)
(* External processes and the filesystem are the environment: every spawn  *)
(* ends in one of Outcomes, chosen nondeterministically, and every         *)
(* remove_dir_all either succeeds or fails.                                *)
(***************************************************************************)
EXTENDS Integers, Sequences, FiniteSets, TLC

VARIABLES
    table,      \* the task table the scheduler looks names up in (ACTIONS)
    args,       \* std::env::args().skip(1)
    argi,       \* index of the next argument the parsing loop reads
    vars,       \* the Vars struct
    tasks,      \* the VecDeque of action references
    pc,         \* position in run_xtask / code_coverage
    cov,        \* the running code_coverage call: format and grcov step
    dirs,       \* filesystem: target_dir/coverage-<format>, see DirStates
    log,        \* everything the run did, in order (spawns, fs calls, prints)
    exitCode,   \* process exit status, NoExit while running
    err         \* which fatal error ended the run

prog == <<table, args, argi, vars, tasks, pc, cov, dirs, log, exitCode, err>>

----------------------------------------------------------------------------
(* Bounds *)

\* longest command line explored
MaxArgs == 3

----------------------------------------------------------------------------
(* enum Action, lines 25-29 *)

Cargo(cmd, a) == [kind |-> "Cargo", cmd |-> cmd, args |-> a]
Call(clb) == [kind |-> "Call", cmd |-> clb, args |-> <<>>]
Run(name) == [kind |-> "Run", cmd |-> name, args |-> <<>>]

\* the table with the reference to lints misspelt
ActionsTypo ==
    << <<"before-pr",
         << Cargo("update", <<>>), Run("lint"), Run("build-all"),
            Run("all-tests"), Run("all-checks") >> >>,
       <<"all-checks",
         << Cargo("deny", <<"check">>), Cargo("semver-checks", <<>>),
            Cargo("outdated", <<"--exit-code", "1">>) >> >>,
       <<"lints",
         << Cargo("fmt", <<"--check">>), Cargo("clippy", <<"--workspace">>) >> >>,
       <<"build-all",
         << Cargo("build", <<"--workspace">>),
            Cargo("build", <<"--workspace", "--tests">>),
            Cargo("build", <<"--workspace", "--release">>) >> >>,
       <<"all-tests", << Cargo("test", <<"--workspace">>) >> >>,
       <<"lcov-coverage", << Call("run_lcov_coverage") >> >>,
       <<"html-coverage", << Call("run_html_coverage") >> >> >>

\* the table with all-checks referring to lints: a second level of nesting
ActionsNested ==
    << <<"before-pr",
         << Cargo("update", <<>>), Run("lints"), Run("build-all"),
            Run("all-tests"), Run("all-checks") >> >>,
       <<"all-checks",
         << Cargo("deny", <<"check">>), Cargo("semver-checks", <<>>),
            Cargo("outdated", <<"--exit-code", "1">>), Run("lints") >> >>,
       <<"lints",
         << Cargo("fmt", <<"--check">>), Cargo("clippy", <<"--workspace">>) >> >>,
       <<"build-all",
         << Cargo("build", <<"--workspace">>),
            Cargo("build", <<"--workspace", "--tests">>),
            Cargo("build", <<"--workspace", "--release">>) >> >>,
       <<"all-tests", << Cargo("test", <<"--workspace">>) >> >>,
       <<"lcov-coverage", << Call("run_lcov_coverage") >> >>,
       <<"html-coverage", << Call("run_html_coverage") >> >> >>

(* static ACTIONS, lines 33-73: a sequence of <<name, actions>> pairs *)
\* (ACTIONS is a reserved word of TLA+, hence the spelling)
Actions ==
    << <<"before-pr",
         << Cargo("update", <<>>),
            Run("lints"),
            Run("build-all"),
            Run("all-tests"),
            Run("all-checks") >> >>,
       <<"all-checks",
         << Cargo("deny", <<"check">>),
            Cargo("semver-checks", <<>>),
            Cargo("outdated", <<"--exit-code", "1">>) >> >>,
       <<"lints",
         << Cargo("fmt", <<"--check">>),
            Cargo("clippy", <<"--workspace">>) >> >>,
       <<"build-all",
         << Cargo("build", <<"--workspace">>),
            Cargo("build", <<"--workspace", "--tests">>),
            Cargo("build", <<"--workspace", "--release">>) >> >>,
       <<"all-tests", << Cargo("test", <<"--workspace">>) >> >>,
       <<"lcov-coverage", << Call("run_lcov_coverage") >> >>,
       <<"html-coverage", << Call("run_html_coverage") >> >> >>

\* the names of a table, in table order
TableNames(tbl) == [i \in 1..Len(tbl) |-> tbl[i][1]]

find_or_first(tbl, t) ==
    IF \E i \in 1..Len(tbl) : tbl[i][1] = t
    THEN CHOOSE i \in 1..Len(tbl) :
            /\ tbl[i][1] = t
            /\ \A j \in 1..(i - 1) : tbl[j][1] # t
    ELSE 1

\* ACTIONS.iter().find(|&&(t, _)| name == t), lines 201 and 228-230: index of
\* the first entry named t, 0 for None
find(tbl, t) ==
    IF \E i \in 1..Len(tbl) : tbl[i][1] = t
    THEN CHOOSE i \in 1..Len(tbl) :
            /\ tbl[i][1] = t
            /\ \A j \in 1..(i - 1) : tbl[j][1] # t
    ELSE 0

\* actions.iter(): references to the actions of table entry ti. A reference is
\* the entry and position it points at; org (not in the code) remembers which
\* command-line argument the reference descends from.
iter(tbl, ti, org) ==
    [k \in 1..Len(tbl[ti][2]) |-> [ti |-> ti, pos |-> k, org |-> org]]

\* *action
Deref(tbl, r) == tbl[r.ti][2][r.pos]

----------------------------------------------------------------------------
(* VecDeque operations used by run_xtask *)

SameAction(r, s) == r.ti = s.ti /\ r.pos = s.pos

extend_dedup(q, items) ==
    q \o SelectSeq(items, LAMBDA r : \A i \in 1..Len(q) : ~SameAction(q[i], r))

\* tasks.extend(..): VecDeque::extend pushes every item at the back
extend(q, items) == q \o items

is_empty_never(q) == FALSE

\* tasks.is_empty()
is_empty(q) == Len(q) = 0

pop_back(q) == <<q[Len(q)], SubSeq(q, 1, Len(q) - 1)>>

\* tasks.pop_front() on a non-empty queue: <<the item, the queue left>>
pop_front(q) == <<Head(q), Tail(q)>>

----------------------------------------------------------------------------
(* Vars, lines 9-23 *)

verbose_arg_never(v) == <<>>

\* Vars::verbose_arg
verbose_arg(v) == IF v.verbose THEN <<"--verbose">> ELSE <<>>

\* arg == "--verbose" || arg == "-v", line 199
is_verbose_flag(arg) == arg = "--verbose" \/ arg = "-v"

toggle_verbose(v) == [v EXCEPT !.verbose = ~v.verbose]

\* vars.verbose = true, line 200
set_verbose(v) == [v EXCEPT !.verbose = TRUE]

----------------------------------------------------------------------------
(* The environment *)

\* how a spawned process ends: .status() is Err ("nostart"), or Ok with an
\* unsuccessful ("fail") or successful ("ok") exit status
Outcomes == {"ok", "fail", "nostart"}

success_unchecked(res) == res # "nostart"

success_ignored(res) == TRUE

\* .status().unwrap_or_else(panic).success() followed by assert!(ret):
\* the run goes on only after a successful exit
success(res) == res = "ok"

Formats == {"lcov", "html"}

\* what the run knows of a coverage directory: the filesystem holds it
\* ("present") or not ("absent") from the start, and the run learns which at
\* its first look; until then it is "unknown" and may be either
DirStates == {"unknown", "present", "absent"}

\* what a look at the directory of a format can find
Observe(d, format) ==
    IF d[format] = "unknown" THEN {"present", "absent"} ELSE {d[format]}

NoExit == -1
ExitOk == 0
ExitUsage == 1
ExitPanic == 101

\* one entry of the log
Ev(ev, p, argv, env, res, ref) ==
    [ev |-> ev, prog |-> p, argv |-> argv, env |-> env, res |-> res, ref |-> ref]

NoRef == [ti |-> 0, pos |-> 0, org |-> 0]

----------------------------------------------------------------------------
(* Initial states *)

Tokens(tbl) ==
    {tbl[i][1] : i \in 1..Len(tbl)} \cup {"--verbose", "-v", "no-such-task"}

SeqsUpTo(S, n) == UNION {[1..k -> S] : k \in 0..n}

InitWith(tbl) ==
    /\ table = tbl
    /\ args \in SeqsUpTo(Tokens(tbl), MaxArgs)
    /\ argi = 1
    /\ vars = [cwd |-> <<"repo">>, target_dir |-> <<"repo", "target">>,
               verbose |-> FALSE]
    /\ tasks = <<>>
    /\ pc = "parse"
    /\ cov = [format |-> "none", step |-> 0, ref |-> NoRef]
    /\ dirs = [f \in Formats |-> "unknown"]
    /\ log = <<>>
    /\ exitCode = NoExit
    /\ err = "none"

Init == InitWith(Actions)

----------------------------------------------------------------------------
(* Leaving the process *)

Exit1_status0(kind, line) ==
    /\ pc' = "exit"
    /\ exitCode' = ExitOk
    /\ err' = kind
    /\ log' = log \o line

\* std::process::exit(1)
Exit1(kind, line) ==
    /\ pc' = "exit"
    /\ exitCode' = ExitUsage
    /\ err' = kind
    /\ log' = log \o line

\* panic!, a failed assert!, or an unwrap of Err: the main thread unwinds and
\* the process ends with status 101
Panic(kind, events) ==
    /\ pc' = "exit"
    /\ exitCode' = ExitPanic
    /\ err' = kind
    /\ log' = log \o events

----------------------------------------------------------------------------
(* run_xtask, lines 198-207: one iteration of the argument loop *)

ParseArg ==
    /\ pc = "parse"
    /\ argi <= Len(args)
    /\ LET arg == args[argi]
           ti == find(table, arg)
       IN  IF is_verbose_flag(arg)
           THEN /\ vars' = set_verbose(vars)
                /\ argi' = argi + 1
                /\ UNCHANGED <<tasks, pc, log, exitCode, err>>
           ELSE IF ti # 0
           THEN /\ tasks' = extend(tasks, iter(table, ti, argi))
                /\ argi' = argi + 1
                /\ UNCHANGED <<vars, pc, log, exitCode, err>>
           ELSE /\ Exit1("InvalidArgument",
                         <<Ev("eprint", "stderr", <<"Invalid argument", arg>>,
                              <<>>, "ok", NoRef)>>)
                /\ UNCHANGED <<vars, tasks, argi>>
    /\ UNCHANGED <<table, args, cov, dirs>>

(* run_xtask, lines 209-220: after the loop *)
CheckTasks ==
    /\ pc = "parse"
    /\ argi > Len(args)
    /\ IF is_empty(tasks)
       THEN Exit1("MissingAction",
                  <<Ev("eprint", "stderr",
                       <<"Missing action, use one of">> \o TableNames(table),
                       <<>>, "ok", NoRef)>>)
       ELSE /\ pc' = "loop"
            /\ UNCHANGED <<log, exitCode, err>>
    /\ UNCHANGED <<table, args, argi, vars, tasks, cov, dirs>>

----------------------------------------------------------------------------
(* cargo_cmd, lines 168-183 *)

cargo_argv_flag_after(command, a, v) == <<command>> \o verbose_arg(v) \o a

\* the argument list given to Command::new("cargo"), lines 175-178
cargo_argv(command, a, v) == verbose_arg(v) \o <<command>> \o a

\* the events of one cargo_cmd call whose process ends as res
cargo_cmd(command, a, v, res, ref) ==
    << Ev("print", "stdout", <<"Running cargo", command>> \o a, <<>>, "ok", ref),
       Ev("spawn", "cargo", cargo_argv(command, a, v), <<>>, res, ref) >>

----------------------------------------------------------------------------
(* run_xtask, lines 222-237: one iteration of the scheduler loop *)

\* Action::Cargo(cmd, args) => cargo_cmd(cmd, args, &vars)
DispatchCargo ==
    /\ pc = "loop"
    /\ Len(tasks) > 0
    /\ LET ref == pop_front(tasks)[1]
           action == Deref(table, ref)
       IN  /\ action.kind = "Cargo"
           /\ tasks' = pop_front(tasks)[2]
           /\ \E res \in Outcomes :
                IF success(res)
                THEN /\ log' = log \o cargo_cmd(action.cmd, action.args, vars, res, ref)
                     /\ UNCHANGED <<pc, exitCode, err>>
                ELSE Panic("SubprocessFailure",
                           cargo_cmd(action.cmd, action.args, vars, res, ref))
    /\ UNCHANGED <<table, args, argi, vars, cov, dirs>>

\* Action::Run(name) => tasks.extend(ACTIONS.iter().find(..).unwrap_or_else(panic).1.iter())
DispatchRun ==
    /\ pc = "loop"
    /\ Len(tasks) > 0
    /\ LET ref == pop_front(tasks)[1]
           action == Deref(table, ref)
           ti == find(table, action.cmd)
       IN  /\ action.kind = "Run"
           /\ IF ti # 0
              THEN /\ tasks' = extend(pop_front(tasks)[2], iter(table, ti, ref.org))
                   /\ UNCHANGED <<pc, log, exitCode, err>>
              ELSE /\ tasks' = pop_front(tasks)[2]
                   /\ Panic("UnknownTask",
                            <<Ev("panic", "stderr", <<"Unknown action", action.cmd>>,
                                 <<>>, "ok", ref)>>)
    /\ UNCHANGED <<table, args, argi, vars, cov, dirs>>

\* while let Some(action) = tasks.pop_front() fails: run_xtask returns
LoopExit ==
    /\ pc = "loop"
    /\ Len(tasks) = 0
    /\ pc' = "exit"
    /\ exitCode' = ExitOk
    /\ UNCHANGED <<table, args, argi, vars, tasks, cov, dirs, log, err>>

----------------------------------------------------------------------------
(* Paths: a PathBuf is the sequence of its components below the root *)

coverage_name_shared(format) == "coverage"

\* format!("coverage-{format}"), line 108
coverage_name(format) ==
    CASE format = "lcov" -> "coverage-lcov"
      [] format = "html" -> "coverage-html"
      [] OTHER -> "coverage-unknown"

\* Path::join with a relative component
join(path, leaf) == Append(path, leaf)

\* vars.target_dir.join(format!("coverage-{format}")), line 108
coverage_dir(v, format) == join(v.target_dir, coverage_name(format))

is_dir_never(found) == FALSE

\* target_dir.is_dir(), line 110, when the filesystem holds found there
is_dir(found) == found = "present"

----------------------------------------------------------------------------
(* grcov, lines 75-96 *)

grcov_argv(target_dir, format, build_type) ==
    << ".",
       "--binary-path", join(join(target_dir, build_type), "deps"),
       "-s", ".",
       "-t", format,
       "--branch",
       "--ignore-not-existing",
       "-o", join(target_dir, format),
       "--keep-only", "src/*",
       "--keep-only", "derive/src/*" >>

grcov(target_dir, format, build_type, res, ref) ==
    Ev("spawn", "grcov", grcov_argv(target_dir, format, build_type), <<>>, res, ref)

----------------------------------------------------------------------------
(* code_coverage, lines 106-166 *)

\* let build_type = "debug", line 107
build_type == "debug"

\* run_lcov_coverage / run_html_coverage, lines 98-104: the format each
\* callback hands to code_coverage
callback_format(clb) ==
    CASE clb = "run_lcov_coverage" -> "lcov"
      [] clb = "run_html_coverage" -> "html"

\* the instrumented test run, lines 115-133
test_env(target_dir) ==
    << <<"CARGO_TARGET_DIR", target_dir>>,
       <<"CARGO_INCREMENTAL", "0">>,
       <<"RUSTFLAGS", "-Cinstrument-coverage">>,
       <<"LLVM_PROFILE_FILE", join(target_dir, "cargo-test-%p-%m.profraw")>> >>

test_argv_verbose(bt) == verbose_arg(vars) \o <<"test", "--workspace">>

test_argv(bt) ==
    <<"test", "--workspace">> \o (IF bt = "release" THEN <<"--release">> ELSE <<>>)

grcov_formats_html_only(format) ==
    IF format = "html" THEN <<"html">> ELSE <<"lcov">>

\* match format, lines 135-165: the grcov calls of each arm, in order
grcov_formats(format) ==
    IF format = "html" THEN <<"html", "lcov">> ELSE <<"lcov">>

runs_genhtml_always(format) == TRUE

\* only the "html" arm goes on to genhtml, lines 140-159
runs_genhtml(format) == format = "html"

\* genhtml, lines 140-149
genhtml_argv(target_dir) ==
    << "-o", join(target_dir, "html2"),
       "--show-details",
       "--highlight",
       "--ignore-errors", "source",
       "--legend", join(target_dir, "lcov") >>

\* vars.cwd.join(&target_dir): target_dir is canonicalized, hence absolute,
\* and joining an absolute path replaces the base
cwd_join(cwd, target_dir) == target_dir

\* println!, lines 151-159
now_open(v, target_dir, ref) ==
    << Ev("print", "stdout", <<"Now open:">>, <<>>, "ok", ref),
       Ev("print", "stdout",
          <<"file://", cwd_join(v.cwd, target_dir), "/html/index.html">>,
          <<>>, "ok", ref),
       Ev("print", "stdout",
          <<"file://", cwd_join(v.cwd, target_dir), "/html2/index.html">>,
          <<>>, "ok", ref) >>

NoCov == [format |-> "none", step |-> 0, ref |-> NoRef]

\* Action::Call(clb) => clb(&vars), and code_coverage up to the test run:
\* lines 225, 98-104, 107-113. remove_dir_all either succeeds or fails.
DispatchCall ==
    /\ pc = "loop"
    /\ Len(tasks) > 0
    /\ LET ref == pop_front(tasks)[1]
           action == Deref(table, ref)
           format == callback_format(action.cmd)
           target_dir == coverage_dir(vars, format)
       IN  /\ action.kind = "Call"
           /\ tasks' = pop_front(tasks)[2]
           /\ \E found \in Observe(dirs, format) :
                LET probe == Ev("is_dir", "fs", <<target_dir>>, <<>>,
                                IF is_dir(found) THEN "yes" ELSE "no", ref)
                IN  IF is_dir(found)
                    THEN \E removed \in BOOLEAN :
                           IF removed
                           THEN /\ dirs' = [dirs EXCEPT ![format] = "absent"]
                                /\ log' = log \o
                                      <<probe, Ev("remove_dir_all", "fs", <<target_dir>>,
                                                  <<>>, "ok", ref)>>
                                /\ pc' = "cov_test"
                                /\ cov' = [format |-> format, step |-> 1, ref |-> ref]
                                /\ UNCHANGED <<exitCode, err>>
                           ELSE /\ Panic("FilesystemFailure",
                                         <<probe, Ev("remove_dir_all", "fs", <<target_dir>>,
                                                     <<>>, "fail", ref)>>)
                                /\ dirs' = [dirs EXCEPT ![format] = found]
                                /\ UNCHANGED cov
                    ELSE /\ log' = log \o <<probe>>
                         /\ dirs' = [dirs EXCEPT ![format] = found]
                         /\ pc' = "cov_test"
                         /\ cov' = [format |-> format, step |-> 1, ref |-> ref]
                         /\ UNCHANGED <<exitCode, err>>
    /\ UNCHANGED <<table, args, argi, vars>>

\* lines 115-133: cargo test with the coverage environment. A cargo that ran
\* has created its target directory; one that failed may or may not have.
CovTest ==
    /\ pc = "cov_test"
    /\ LET target_dir == coverage_dir(vars, cov.format)
       IN  \E res \in Outcomes :
             LET e == Ev("spawn", "cargo", test_argv(build_type),
                         test_env(target_dir), res, cov.ref)
             IN  IF success(res)
                 THEN /\ log' = log \o <<e>>
                      /\ dirs' = [dirs EXCEPT ![cov.format] = "present"]
                      /\ pc' = "cov_grcov"
                      /\ UNCHANGED <<exitCode, err>>
                 ELSE /\ Panic("SubprocessFailure", <<e>>)
                      /\ \E made \in BOOLEAN :
                           dirs' = [dirs EXCEPT
                                      ![cov.format] =
                                          IF res # "nostart" /\ made THEN "present" ELSE @]
    /\ UNCHANGED <<table, args, argi, vars, tasks, cov>>

\* lines 137-138 and 162: the next grcov call of the arm
CovGrcov ==
    /\ pc = "cov_grcov"
    /\ LET target_dir == coverage_dir(vars, cov.format)
           plan == grcov_formats(cov.format)
       IN  \E res \in Outcomes :
             LET e == grcov(target_dir, plan[cov.step], build_type, res, cov.ref)
             IN  IF success(res)
                 THEN /\ log' = log \o <<e>>
                      /\ IF cov.step < Len(plan)
                         THEN /\ cov' = [cov EXCEPT !.step = @ + 1]
                              /\ UNCHANGED pc
                         ELSE IF runs_genhtml(cov.format)
                         THEN /\ pc' = "cov_genhtml"
                              /\ UNCHANGED cov
                         ELSE /\ pc' = "loop"
                              /\ cov' = NoCov
                      /\ UNCHANGED <<exitCode, err>>
                 ELSE /\ Panic("SubprocessFailure", <<e>>)
                      /\ UNCHANGED cov
    /\ UNCHANGED <<table, args, argi, vars, tasks, dirs>>

\* lines 140-159: genhtml, then the two URLs
CovGenhtml ==
    /\ pc = "cov_genhtml"
    /\ LET target_dir == coverage_dir(vars, cov.format)
       IN  \E res \in Outcomes :
             LET e == Ev("spawn", "genhtml", genhtml_argv(target_dir), <<>>, res, cov.ref)
             IN  IF success(res)
                 THEN /\ log' = log \o <<e>> \o now_open(vars, target_dir, cov.ref)
                      /\ pc' = "loop"
                      /\ cov' = NoCov
                      /\ UNCHANGED <<exitCode, err>>
                 ELSE /\ Panic("SubprocessFailure", <<e>>)
                      /\ UNCHANGED cov
    /\ UNCHANGED <<table, args, argi, vars, tasks, dirs>>

----------------------------------------------------------------------------
(* The program *)

Next ==
    \/ ParseArg
    \/ CheckTasks
    \/ DispatchCargo
    \/ DispatchCall
    \/ DispatchRun
    \/ LoopExit
    \/ CovTest
    \/ CovGrcov
    \/ CovGenhtml

Spec == Init /\ [][Next]_prog

\* run_xtask is one sequential thread that blocks on every child until it
\* ends: as long as a step is possible, one is taken
SpecFair == Spec /\ WF_prog(Next)

----------------------------------------------------------------------------
(* The scheduler over a table with dangling references.  ACTIONS itself has  *)
(* none, so the Unknown action panic of lines 228-231 is exercised with the  *)
(* shipped entries followed by three more: flat refers to a missing task     *)
(* directly, outer reaches one through inner.                                *)

ActionsWithDangling ==
    Actions \o
    << <<"flat",
         << Cargo("check", <<>>), Run("ghost"), Cargo("doc", <<>>) >> >>,
       <<"outer",
         << Cargo("check", <<>>), Run("inner"), Cargo("doc", <<>>) >> >>,
       <<"inner",
         << Cargo("bench", <<>>), Run("ghost"), Cargo("clean", <<>>) >> >> >>

InitT == InitWith(ActionsWithDangling)

SpecT == InitT /\ [][Next]_prog

----------------------------------------------------------------------------
(* What a run did, read off the log *)

\* the log entries that start a terminal action: the spawn of cargo_cmd for a
\* Cargo action, the first step of code_coverage for a Call action
StartsAction(e) ==
    \/ e.ev = "is_dir"
    \/ /\ e.ev = "spawn"
       /\ e.prog = "cargo"
       /\ Deref(table, e.ref).kind = "Cargo"

Starts == SelectSeq(log, StartsAction)

\* the terminal actions executed so far, in order
Executed == [k \in 1..Len(Starts) |-> Deref(table, Starts[k].ref)]

IsPrefix(s, t) == Len(s) <= Len(t) /\ s = SubSeq(t, 1, Len(s))

Exited == pc = "exit"

Succeeded == pc = "exit" /\ exitCode = ExitOk

\* the entry of a table named n (the first one)
Entry(tbl, n) ==
    tbl[CHOOSE i \in 1..Len(tbl) :
          tbl[i][1] = n /\ \A j \in 1..(i - 1) : tbl[j][1] # n]

Known(tbl, n) == \E i \in 1..Len(tbl) : tbl[i][1] = n

\* the depth-first, left-to-right expansion of a sequence of actions: a Run
\* is replaced by the expansion of the task it names
RECURSIVE FlattenActions(_, _)
FlattenActions(tbl, acts) ==
    IF acts = <<>> THEN <<>>
    ELSE LET a == Head(acts)
         IN  (IF a.kind = "Run"
              THEN FlattenActions(tbl, Entry(tbl, a.cmd)[2])
              ELSE <<a>>)
             \o FlattenActions(tbl, Tail(acts))

Flatten(tbl, n) == FlattenActions(tbl, Entry(tbl, n)[2])

\* the expansions of several names, one after the other
RECURSIVE FlattenAll(_, _)
FlattenAll(tbl, names) ==
    IF names = <<>> THEN <<>>
    ELSE Flatten(tbl, Head(names)) \o FlattenAll(tbl, Tail(names))

IsFlag(a) == a \in {"--verbose", "-v"}

\* the task names of the command line, in order
Requested == SelectSeq(args, LAMBDA a : ~IsFlag(a))

AllValid == \A i \in 1..Len(args) : IsFlag(args[i]) \/ Known(table, args[i])

\* the expansions of the task table as section 4.1 of the specification
\* lists them
LintsExpansion ==
    << Cargo("fmt", <<"--check">>), Cargo("clippy", <<"--workspace">>) >>

BuildAllExpansion ==
    << Cargo("build", <<"--workspace">>),
       Cargo("build", <<"--workspace", "--tests">>),
       Cargo("build", <<"--workspace", "--release">>) >>

AllTestsExpansion == << Cargo("test", <<"--workspace">>) >>

AllChecksExpansion ==
    << Cargo("deny", <<"check">>),
       Cargo("semver-checks", <<>>),
       Cargo("outdated", <<"--exit-code", "1">>) >>

BeforePrExpansion ==
    << Cargo("update", <<>>) >> \o LintsExpansion \o BuildAllExpansion
        \o AllTestsExpansion \o AllChecksExpansion

----------------------------------------------------------------------------
\* C1: when one task name N is the whole command line, the terminal actions
\* executed are at every moment a prefix of the depth-first expansion of N,
\* and the whole of it once the run has succeeded; for lints that is
\* fmt --check, clippy --workspace and for before-pr update followed by the
\* expansions of lints, build-all, all-tests and all-checks.
C1_SingleTaskFlattened ==
    (Len(args) = 1 /\ Known(table, args[1])) =>
        /\ IsPrefix(Executed, Flatten(table, args[1]))
        /\ Succeeded => Executed = Flatten(table, args[1])
        /\ (Succeeded /\ args[1] = "lints") => Executed = LintsExpansion
        /\ (Succeeded /\ args[1] = "before-pr") => Executed = BeforePrExpansion
        /\ \A k \in 1..Len(Starts) :
             Starts[k].ev = "spawn" =>
                Starts[k].argv = <<Executed[k].cmd>> \o Executed[k].args

C1_Witness == Succeeded /\ args = <<"before-pr">> /\ Len(Executed) = 10

----------------------------------------------------------------------------
\* C2: for any command line of valid task names, the executed sequence of a
\* successful run is the depth-first expansion of the first name, followed
\* by that of the second, and so on (a referenced task's actions run before
\* everything that was waiting in the queue).
C2_DepthFirstPerArgument ==
    (AllValid /\ Succeeded) => Executed = FlattenAll(table, Requested)

----------------------------------------------------------------------------
\* C3: when the arguments at positions i < j both contain a Run of a task T,
\* a successful run has executed T's actions once for i and once for j:
\* each copy is T's action list in order with nothing in between, and the
\* copy of i is over before the copy of j starts.

\* the positions in Starts of the copy of table entry t made for argument i
CopyAt(i, t) == {k \in 1..Len(Starts) : Starts[k].ref.org = i /\ Starts[k].ref.ti = t}

References(tbl, n, t) ==
    \E k \in 1..Len(Entry(tbl, n)[2]) :
        Entry(tbl, n)[2][k] = Run(tbl[t][1])

IsFullCopy(i, t) ==
    LET P == CopyAt(i, t)
        n == Len(table[t][2])
    IN  /\ Cardinality(P) = n
        /\ \E lo \in 1..Len(Starts) :
             /\ P = lo..(lo + n - 1)
             /\ \A k \in P : Starts[k].ref.pos = k - lo + 1

C3_NoDeduplication ==
    Succeeded =>
        \A i \in 1..Len(args), j \in 1..Len(args), t \in 1..Len(table) :
            ( /\ i < j
              /\ Known(table, args[i]) /\ Known(table, args[j])
              /\ References(table, args[i], t)
              /\ References(table, args[j], t) )
            => /\ IsFullCopy(i, t)
               /\ IsFullCopy(j, t)
               /\ \A a \in CopyAt(i, t), b \in CopyAt(j, t) : a < b

C3_Witness ==
    /\ Succeeded
    /\ args = <<"before-pr", "before-pr">>
    /\ Len(SelectSeq(Executed, LAMBDA a : a = Cargo("fmt", <<"--check">>))) = 2

----------------------------------------------------------------------------
\* C4: when some argument is neither a verbosity flag nor a task name of the
\* table, the run never leaves argument parsing except to exit with a
\* non-zero status, and it spawns no process, touches no directory and
\* calls no leaf operation.
HasInvalidArgument ==
    \E i \in 1..Len(args) : ~IsFlag(args[i]) /\ ~Known(table, args[i])

C4_InvalidArgumentRunsNothing ==
    HasInvalidArgument =>
        /\ pc \in {"parse", "exit"}
        /\ \A k \in 1..Len(log) : log[k].ev = "eprint"
        /\ Exited => (exitCode # ExitOk /\ err = "InvalidArgument")

C4_Witness ==
    /\ Exited
    /\ exitCode = ExitUsage
    /\ args = <<"lints", "-v", "no-such-task">>
    /\ Len(tasks) = 2

----------------------------------------------------------------------------
\* C5: when the command line holds no task name (it is empty or all flags),
\* the run goes from parsing straight to an exit with a non-zero status,
\* having printed the missing-action message with the table's names in
\* table order and nothing else; and whenever the scheduler loop is
\* running, some task name was given.
OnlyFlags == \A i \in 1..Len(args) : IsFlag(args[i])

MissingActionMessage ==
    Ev("eprint", "stderr",
       <<"Missing action, use one of",
         "before-pr", "all-checks", "lints", "build-all", "all-tests",
         "lcov-coverage", "html-coverage">>,
       <<>>, "ok", NoRef)

C5_NoTaskNameRunsNothing ==
    /\ OnlyFlags =>
        /\ pc \in {"parse", "exit"}
        /\ Exited => /\ exitCode # ExitOk
                     /\ err = "MissingAction"
                     /\ log = <<MissingActionMessage>>
        /\ ~Exited => log = <<>>
    /\ pc \notin {"parse", "exit"} => Len(Requested) > 0
    /\ (pc = "loop" /\ log = <<>>) => Len(tasks) > 0

C5_Witness ==
    /\ Exited
    /\ args = <<"-v", "--verbose">>
    /\ err = "MissingAction"

----------------------------------------------------------------------------
\* C6: a failure (a process that did not start or did not succeed, a
\* directory that could not be removed, a task reference that could not be
\* resolved) is the last thing a run does: the run has exited with a
\* non-zero status and nothing was logged after it. A run that has exited
\* has either emptied the queue without any failure, or stopped for a
\* reported error.
IsFailure(e) ==
    \/ e.ev = "spawn" /\ e.res # "ok"
    \/ e.ev = "remove_dir_all" /\ e.res # "ok"
    \/ e.ev = "panic"

C6_FailFast ==
    /\ \A k \in 1..Len(log) :
         IsFailure(log[k]) =>
            /\ k = Len(log)
            /\ Exited
            /\ exitCode # ExitOk
    /\ Exited =>
         \/ /\ exitCode = ExitOk
            /\ err = "none"
            /\ tasks = <<>>
            /\ \A k \in 1..Len(log) : ~IsFailure(log[k])
         \/ /\ exitCode # ExitOk
            /\ err # "none"
            /\ Len(log) > 0
            /\ IsFailure(log[Len(log)]) \/ log[Len(log)].ev = "eprint"

C6_Witness ==
    /\ Exited
    /\ exitCode = ExitPanic
    /\ err = "SubprocessFailure"
    /\ Len(Executed) = 2
    /\ Len(tasks) > 0

----------------------------------------------------------------------------
\* C7: when a task reached through a Run refers to a task absent from the
\* table, the run that ends with Unknown action has executed exactly the
\* actions that come before that reference in the depth-first expansion of
\* the command line: all of them, and none that comes after.

\* the depth-first walk of a sequence of actions up to the first Run that
\* cannot be resolved: the terminal actions met, and whether the walk got
\* through
RECURSIVE DepthFirstWalk(_, _)
DepthFirstWalk(tbl, acts) ==
    IF acts = <<>> THEN [out |-> <<>>, ok |-> TRUE]
    ELSE LET a == Head(acts)
             first == IF a.kind # "Run" THEN [out |-> <<a>>, ok |-> TRUE]
                      ELSE IF Known(tbl, a.cmd)
                      THEN DepthFirstWalk(tbl, Entry(tbl, a.cmd)[2])
                      ELSE [out |-> <<>>, ok |-> FALSE]
         IN  IF first.ok
             THEN LET rest == DepthFirstWalk(tbl, Tail(acts))
                  IN  [out |-> first.out \o rest.out, ok |-> rest.ok]
             ELSE first

RequestedWalk ==
    DepthFirstWalk(table, [k \in 1..Len(Requested) |-> Run(Requested[k])])

----------------------------------------------------------------------------
\* C8: the executed actions depend only on the task names of the command
\* line, not on how many verbosity flags it holds or where: they are at
\* every moment a prefix of, and after a successful run equal to, what the
\* command line without its flags schedules. And when a flag occurs anywhere
\* in the command line, every cargo_cmd invocation of the run carries
\* --verbose.

\* the order in which the scheduler executes a queue of actions when nothing
\* fails: a Run puts the actions of its task behind everything that waits
RECURSIVE QueueOrder(_, _)
QueueOrder(tbl, q) ==
    IF q = <<>> THEN <<>>
    ELSE IF Head(q).kind = "Run"
    THEN QueueOrder(tbl, Tail(q) \o Entry(tbl, Head(q).cmd)[2])
    ELSE <<Head(q)>> \o QueueOrder(tbl, Tail(q))

RECURSIVE SeedOf(_, _)
SeedOf(tbl, names) ==
    IF names = <<>> THEN <<>>
    ELSE Entry(tbl, Head(names))[2] \o SeedOf(tbl, Tail(names))

HasFlag == \E i \in 1..Len(args) : IsFlag(args[i])

IsCargoCmd(e) ==
    e.ev = "spawn" /\ e.prog = "cargo" /\ Deref(table, e.ref).kind = "Cargo"

Carries(argv, word) == \E k \in 1..Len(argv) : argv[k] = word

C8_VerbosityIdempotentAnywhere ==
    AllValid =>
        /\ IsPrefix(Executed, QueueOrder(table, SeedOf(table, Requested)))
        /\ Succeeded => Executed = QueueOrder(table, SeedOf(table, Requested))
        /\ HasFlag =>
             \A k \in 1..Len(log) :
                IsCargoCmd(log[k]) => Carries(log[k].argv, "--verbose")

C8_Witness ==
    /\ Succeeded
    /\ args = <<"lints", "-v", "--verbose">>
    /\ Len(Executed) = 2

----------------------------------------------------------------------------
\* C9: the grcov and genhtml processes of one run of a coverage operation
\* are, for the HTML operation, grcov -t html, grcov -t lcov, genhtml, in
\* that order, genhtml reading the file grcov -t lcov wrote; for the lcov
\* operation one grcov -t lcov and no genhtml. A run that has not failed and
\* is over has spawned all of them.

\* the coverage runs started so far, each known by its action reference
CoverageRuns == {log[k].ref : k \in {i \in 1..Len(log) : log[i].ev = "is_dir"}}

ToolRuns(ref) ==
    SelectSeq(log, LAMBDA e :
        e.ev = "spawn" /\ e.ref = ref /\ e.prog \in {"grcov", "genhtml"})

ToolKind(e) ==
    IF e.prog = "grcov" /\ e.argv[6] = "-t" THEN <<"grcov", e.argv[7]>>
    ELSE <<e.prog, "">>

ToolKinds(ref) == [k \in 1..Len(ToolRuns(ref)) |-> ToolKind(ToolRuns(ref)[k])]

InProgress(ref) ==
    pc \in {"cov_test", "cov_grcov", "cov_genhtml"} /\ cov.ref = ref

Failed(ref) == \E k \in 1..Len(log) : log[k].ref = ref /\ IsFailure(log[k])

Completed(ref) == ref \in CoverageRuns /\ ~InProgress(ref) /\ ~Failed(ref)

HtmlPlan == << <<"grcov", "html">>, <<"grcov", "lcov">>, <<"genhtml", "">> >>

LcovPlan == << <<"grcov", "lcov">> >>

C9_CoverageAggregations ==
    \A ref \in CoverageRuns :
        LET plan == IF Deref(table, ref) = Call("run_html_coverage")
                    THEN HtmlPlan ELSE LcovPlan
            runs == ToolRuns(ref)
        IN  /\ Deref(table, ref) \in
                  {Call("run_html_coverage"), Call("run_lcov_coverage")}
            /\ IsPrefix(ToolKinds(ref), plan)
            /\ Completed(ref) => ToolKinds(ref) = plan
            /\ Len(runs) = 3 => runs[3].argv[8] = runs[2].argv[11]

C9_Witness ==
    /\ Succeeded
    /\ args = <<"html-coverage", "lcov-coverage">>
    /\ Cardinality(CoverageRuns) = 2

----------------------------------------------------------------------------
\* C10: a coverage run first looks whether its output directory exists. If
\* it does, the next thing it does is remove it, and a failed removal ends
\* the run with no process spawned for it; if it does not, nothing is
\* removed and the test run follows. So whenever the test run is about to
\* start, the directory of that format does not exist.
RunEvents(ref) == SelectSeq(log, LAMBDA e : e.ref = ref /\ e.ev # "print")

IsTestRun(e) == e.ev = "spawn" /\ e.prog = "cargo" /\ e.argv = <<"test", "--workspace">>

C10_OutputDirectoryRemovedFirst ==
    /\ pc = "cov_test" => dirs[cov.format] = "absent"
    /\ \A ref \in CoverageRuns :
         LET ev == RunEvents(ref)
         IN  /\ ev[1].ev = "is_dir"
             /\ ev[1].res = "yes" =>
                  /\ Len(ev) >= 2
                  /\ ev[2].ev = "remove_dir_all"
                  /\ ev[2].argv = ev[1].argv
                  /\ ev[2].res = "ok" => (Len(ev) >= 3 => IsTestRun(ev[3]))
                  /\ ev[2].res # "ok" =>
                       /\ Len(ev) = 2
                       /\ log[Len(log)] = ev[2]
                       /\ Exited /\ exitCode # ExitOk
                       /\ err = "FilesystemFailure"
             /\ ev[1].res = "no" =>
                  /\ \A k \in 1..Len(ev) : ev[k].ev # "remove_dir_all"
                  /\ Len(ev) >= 2 => IsTestRun(ev[2])
             /\ \A k \in 1..Len(ev) : ev[k].ev = "spawn" => k > 1

C10_Witness ==
    /\ Succeeded
    /\ args = <<"lcov-coverage", "html-coverage">>
    /\ \E k \in 1..Len(log) : log[k].ev = "remove_dir_all" /\ log[k].res = "ok"
    /\ \E k \in 1..Len(log) : log[k].ev = "is_dir" /\ log[k].res = "no"

----------------------------------------------------------------------------
\* C11: every run ends; and a run that has ended has exit code 0 exactly
\* when every argument was a flag or a task name of the table, at least one
\* task name was given, and nothing failed; in every other case (invalid
\* argument, no task name, a failed process, a failed removal, an unknown
\* task) the exit code is not 0.
NothingFailed == \A k \in 1..Len(log) : ~IsFailure(log[k])

----------------------------------------------------------------------------
\* C12 as stated: when verbosity is enabled, the argument list of every
\* cargo_cmd invocation is the subcommand, then --verbose, then the
\* action's explicit arguments.
VerboseCargoCmds ==
    {k \in 1..Len(log) : IsCargoCmd(log[k]) /\ vars.verbose}

C12_FlagAfterSubcommand ==
    \A k \in VerboseCargoCmds :
        LET a == Deref(table, log[k].ref)
        IN  log[k].argv = <<a.cmd, "--verbose">> \o a.args

\* C12 as amended: when verbosity is enabled, the argument list of every
\* cargo_cmd invocation is --verbose, then the subcommand, then the action's
\* explicit arguments: the flag comes immediately before the subcommand
\* name. Without verbosity it is the subcommand and the explicit arguments.
C12_FlagBeforeSubcommand ==
    \A k \in 1..Len(log) :
        IsCargoCmd(log[k]) =>
            LET a == Deref(table, log[k].ref)
            IN  log[k].argv =
                    IF vars.verbose THEN <<"--verbose", a.cmd>> \o a.args
                    ELSE <<a.cmd>> \o a.args

C12_Witness ==
    /\ Succeeded
    /\ args = <<"--verbose", "all-checks">>
    /\ \E k \in 1..Len(log) :
         /\ log[k].ev = "spawn"
         /\ log[k].argv = <<"--verbose", "outdated", "--exit-code", "1">>

----------------------------------------------------------------------------
\* C13: the queue changes in three ways only: argument parsing appends the
\* actions of a requested task; the scheduler removes the front action and
\* dispatches it (a Cargo action is spawned, a Call action starts its
\* coverage run); the scheduler removes a front Run and adds the actions of
\* the task it names, leaving the waiting actions in their order. No action
\* reference is in the queue twice, none that was dispatched is still or
\* again in the queue, none is dispatched twice, and a successful run
\* leaves the queue empty.
NoRepeats(q) == \A i \in 1..Len(q), j \in 1..Len(q) : q[i] = q[j] => i = j

StartedRefs == [k \in 1..Len(Starts) |-> Starts[k].ref]

NewEvents == SubSeq(log', Len(log) + 1, Len(log'))

QueueStep ==
    tasks' # tasks =>
        IF pc = "parse"
        THEN /\ Known(table, args[argi])
             /\ tasks' = tasks \o iter(table, find(table, args[argi]), argi)
        ELSE /\ pc = "loop"
             /\ Len(tasks) > 0
             /\ LET h == Head(tasks)
                    a == Deref(table, h)
                IN  CASE a.kind = "Run" /\ Known(table, a.cmd) ->
                            LET X == iter(table, find(table, a.cmd), h.org)
                            IN  tasks' \in {Tail(tasks) \o X, X \o Tail(tasks)}
                      [] a.kind = "Cargo" ->
                            /\ tasks' = Tail(tasks)
                            /\ \E k \in 1..Len(NewEvents) :
                                 /\ NewEvents[k].ev = "spawn"
                                 /\ NewEvents[k].ref = h
                      [] a.kind = "Call" ->
                            /\ tasks' = Tail(tasks)
                            /\ NewEvents[1].ev = "is_dir"
                            /\ NewEvents[1].ref = h
                      [] OTHER -> tasks' = Tail(tasks) /\ pc' = "exit"

C13_QueueDiscipline ==
    /\ []( /\ NoRepeats(tasks)
           /\ NoRepeats(StartedRefs)
           /\ \A i \in 1..Len(tasks), k \in 1..Len(Starts) :
                tasks[i] # Starts[k].ref
           /\ Succeeded => tasks = <<>> )
    /\ [][QueueStep]_prog

C13_Witness ==
    /\ pc = "loop"
    /\ args = <<"before-pr", "lints", "html-coverage">>
    /\ Len(Starts) = 3
    /\ Len(tasks) = 10

----------------------------------------------------------------------------
\* C14: within one coverage run, a grcov process is spawned only after the
\* test run of that coverage run succeeded, genhtml only after grcov -t html
\* and grcov -t lcov both succeeded, and the URLs are printed only after
\* genhtml succeeded; a step that failed is the last event of its run.
AllEvents(ref) == SelectSeq(log, LAMBDA e : e.ref = ref)

OkBefore(ev, k, P(_)) == \E j \in 1..(k - 1) : P(ev[j]) /\ ev[j].res = "ok"

IsGrcov(e) == e.ev = "spawn" /\ e.prog = "grcov"

IsGrcovHtml(e) == IsGrcov(e) /\ e.argv[7] = "html"

IsGrcovLcov(e) == IsGrcov(e) /\ e.argv[7] = "lcov"

IsGenhtml(e) == e.ev = "spawn" /\ e.prog = "genhtml"

C14_CoverageStepsOrdered ==
    \A ref \in CoverageRuns :
        LET ev == AllEvents(ref)
        IN  \A k \in 1..Len(ev) :
              /\ IsGrcov(ev[k]) => OkBefore(ev, k, IsTestRun)
              /\ IsGenhtml(ev[k]) =>
                    /\ OkBefore(ev, k, IsTestRun)
                    /\ OkBefore(ev, k, IsGrcovHtml)
                    /\ OkBefore(ev, k, IsGrcovLcov)
              /\ ev[k].ev = "print" => OkBefore(ev, k, IsGenhtml)
              /\ IsFailure(ev[k]) => (k = Len(ev) /\ log[Len(log)] = ev[k])

C14_Witness ==
    /\ Succeeded
    /\ args = <<"html-coverage">>
    /\ Len(SelectSeq(log, LAMBDA e : e.ev = "print")) = 3

----------------------------------------------------------------------------
\* C15 as stated: no step of the run changes the Vars struct.
C15_VarsNeverChange == [][vars' = vars]_prog

\* C15 as amended: cwd and target_dir never change; verbose is only ever set
\* (from false to true), and only while the arguments are parsed; once the
\* scheduler loop has started no field changes, so all action executions of
\* a run see the same Vars: the cargo_cmd invocations of a run either all
\* carry --verbose or none does.
VarsStep ==
    /\ vars'.cwd = vars.cwd
    /\ vars'.target_dir = vars.target_dir
    /\ vars.verbose => vars'.verbose
    /\ pc # "parse" => vars' = vars
    /\ vars' # vars => is_verbose_flag(args[argi])

C15_VarsFixedAfterParsing ==
    /\ [][VarsStep]_prog
    /\ [](\A j \in 1..Len(log), k \in 1..Len(log) :
             (IsCargoCmd(log[j]) /\ IsCargoCmd(log[k])) =>
                (Carries(log[j].argv, "--verbose")
                    <=> Carries(log[k].argv, "--verbose")))

C15_Witness ==
    /\ pc = "loop"
    /\ args = <<"lints", "-v", "all-tests">>
    /\ vars.verbose
    /\ Len(Starts) = 2

----------------------------------------------------------------------------
\* C16: every task name used by a Run action of the table is a name of the
\* table, and no run ends with Unknown action.
TableClosed(tbl) ==
    \A i \in 1..Len(tbl) :
        \A k \in 1..Len(tbl[i][2]) :
            tbl[i][2][k].kind = "Run" => Known(tbl, tbl[i][2][k].cmd)

C16_TableClosed ==
    /\ TableClosed(table)
    /\ err # "UnknownTask"
    /\ \A k \in 1..Len(log) : log[k].ev # "panic"

C16_Witness ==
    /\ pc = "loop"
    /\ args = <<"before-pr">>
    /\ Len(Starts) = 1
    /\ Len(tasks) = 9

----------------------------------------------------------------------------
\* C17: only before-pr holds Run actions and the tasks they name hold none,
\* so the work left in the queue (one for each waiting action, plus one for
\* each action a waiting Run will add) never exceeds the size of the full
\* expansion of the command line, counting task references and terminal
\* actions alike, and every scheduler iteration lowers it by exactly one:
\* the number of iterations and the queue length are bounded by that size.
RunsIn(acts) == {k \in 1..Len(acts) : acts[k].kind = "Run"}

DepthAtMostOne(tbl) ==
    \A i \in 1..Len(tbl) :
        /\ RunsIn(tbl[i][2]) # {} => tbl[i][1] = "before-pr"
        /\ \A k \in RunsIn(tbl[i][2]) :
             /\ Known(tbl, tbl[i][2][k].cmd)
             /\ RunsIn(Entry(tbl, tbl[i][2][k].cmd)[2]) = {}

\* the iterations one action costs when references nest at most once
Weight(tbl, a) ==
    IF a.kind = "Run" THEN 1 + Len(Entry(tbl, a.cmd)[2]) ELSE 1

RECURSIVE WorkIn(_, _)
WorkIn(tbl, acts) ==
    IF acts = <<>> THEN 0
    ELSE Weight(tbl, Head(acts)) + WorkIn(tbl, Tail(acts))

WorkLeft == WorkIn(table, [k \in 1..Len(tasks) |-> Deref(table, tasks[k])])

FullSize == WorkIn(table, SeedOf(table, Requested))

LoopStep ==
    (pc = "loop" /\ pc' # pc) \/ (pc = "loop" /\ tasks' # tasks)

C17_BoundedWork ==
    /\ [](DepthAtMostOne(table))
    /\ [](AllValid => (Len(tasks) <= WorkLeft /\ WorkLeft <= FullSize))
    /\ []((AllValid /\ pc = "loop" /\ log = <<>> /\ Len(tasks) = Len(SeedOf(table, Requested)))
            => WorkLeft = FullSize)
    /\ [][(pc = "loop" /\ tasks' # tasks) =>
             WorkIn(table, [k \in 1..Len(tasks') |-> Deref(table, tasks'[k])])
                = WorkLeft - 1]_prog
    /\ [][(pc = "loop" /\ Len(tasks) > 0) => tasks' # tasks]_prog

C17_Witness ==
    /\ Succeeded
    /\ args = <<"before-pr", "before-pr", "before-pr">>
    /\ FullSize = 42
    /\ WorkLeft = 0

----------------------------------------------------------------------------
\* C18: every path a coverage run of one format hands to the filesystem or
\* to a process lies under target_dir/coverage-<that format> and not under
\* the directory of the other format; a step changes the state of a
\* coverage directory only while the run of that format is the one being
\* executed; and a successful run of both coverage tasks ends with both
\* directories present.
FormatOf(ref) ==
    IF Deref(table, ref) = Call("run_html_coverage") THEN "html" ELSE "lcov"

OtherFormat(f) == IF f = "html" THEN "lcov" ELSE "html"

DirOf(f) ==
    vars.target_dir \o
        (IF f = "html" THEN <<"coverage-html">> ELSE <<"coverage-lcov">>)

PathsOf(e) ==
    CASE e.ev \in {"is_dir", "remove_dir_all"} -> {e.argv[1]}
      [] e.ev = "spawn" /\ e.prog = "cargo" -> {e.env[1][2], e.env[4][2]}
      [] e.ev = "spawn" /\ e.prog = "grcov" -> {e.argv[3], e.argv[11]}
      [] e.ev = "spawn" /\ e.prog = "genhtml" -> {e.argv[2], e.argv[8]}
      [] e.ev = "print" /\ Len(e.argv) = 3 -> {e.argv[2]}
      [] OTHER -> {}

\* the format whose coverage run the next step belongs to, "none" if none
ActiveFormat ==
    IF pc \in {"cov_test", "cov_grcov", "cov_genhtml"} THEN cov.format
    ELSE IF pc = "loop" /\ Len(tasks) > 0 /\ Deref(table, Head(tasks)).kind = "Call"
    THEN FormatOf(Head(tasks))
    ELSE "none"

C18_DisjointCoverageDirectories ==
    /\ [](\A ref \in CoverageRuns :
            \A k \in 1..Len(AllEvents(ref)) :
               \A path \in PathsOf(AllEvents(ref)[k]) :
                  /\ IsPrefix(DirOf(FormatOf(ref)), path)
                  /\ ~IsPrefix(DirOf(OtherFormat(FormatOf(ref))), path))
    /\ [][\A f \in Formats : dirs'[f] # dirs[f] => ActiveFormat = f]_prog
    /\ []((Succeeded /\ \A f \in Formats :
                          \E ref \in CoverageRuns : FormatOf(ref) = f)
            => \A f \in Formats : dirs[f] = "present")

C18_Witness ==
    /\ Succeeded
    /\ args = <<"lcov-coverage", "html-coverage", "lcov-coverage">>
    /\ dirs = [f \in Formats |-> "present"]
    /\ Len(SelectSeq(log, LAMBDA e : e.ev = "remove_dir_all")) >= 1

----------------------------------------------------------------------------
\* C19: the processes of a coverage run get argument lists (and, for the
\* test run, an environment) fixed by the format and target_dir alone:
\* they are the same in runs with and without verbosity, and none carries
\* --verbose.
ExpectedCoverageSpawn(e, dir) ==
    CASE e.prog = "cargo" ->
            /\ e.argv = <<"test", "--workspace">>
            /\ e.env = << <<"CARGO_TARGET_DIR", dir>>,
                          <<"CARGO_INCREMENTAL", "0">>,
                          <<"RUSTFLAGS", "-Cinstrument-coverage">>,
                          <<"LLVM_PROFILE_FILE",
                            dir \o <<"cargo-test-%p-%m.profraw">> >> >>
      [] e.prog = "grcov" ->
            /\ e.argv[7] \in {"html", "lcov"}
            /\ e.argv = << ".", "--binary-path", dir \o <<"debug", "deps">>,
                           "-s", ".", "-t", e.argv[7], "--branch",
                           "--ignore-not-existing", "-o", dir \o <<e.argv[7]>>,
                           "--keep-only", "src/*",
                           "--keep-only", "derive/src/*" >>
            /\ e.env = <<>>
      [] e.prog = "genhtml" ->
            /\ e.argv = << "-o", dir \o <<"html2">>, "--show-details",
                           "--highlight", "--ignore-errors", "source",
                           "--legend", dir \o <<"lcov">> >>
            /\ e.env = <<>>
      [] OTHER -> FALSE

C19_VerbosityOnlyInCargoCmd ==
    \A k \in 1..Len(log) :
        (log[k].ev = "spawn" /\ log[k].ref \in CoverageRuns) =>
            ExpectedCoverageSpawn(log[k], DirOf(FormatOf(log[k].ref)))

C19_Witness ==
    /\ Succeeded
    /\ vars.verbose
    /\ args = <<"-v", "html-coverage", "lints">>
    /\ \E k \in 1..Len(log) : log[k].argv = <<"--verbose", "fmt", "--check">>

====
